---- MODULE Spec2Model ----
(***************************************************************************)
(* PassForge: password and passphrase generation.                          *)
(*                                                                         *)
(* Strings are sequences of one-character strings, so that length,         *)
(* concatenation, splitting and membership in a character table are        *)
(* computed and not assumed.  A call of the library is one action: the     *)
(* caller holds a generator and its configuration, calls generate or       *)
(* generate_multiple once, and the value the call returns is recorded      *)
(* together with the locals of the call (the resolved lengths, the vector  *)
(* of allowed characters, the loaded word list, the positions the random   *)
(* sample picked).  The random source is a nondeterministic choice over    *)
(* the values it can return.                                               *)
(*                                                                         *)
(* Four specifications share the variables: Spec is a caller of one        *)
(* generator, SpecEvaluator a caller of the strength evaluator, SpecCli    *)
(* one run of the passforge binary on a parsed command line, SpecThreads   *)
(* several threads inside PasswordGenerator::generate on one shared        *)
(* configuration.                                                          *)
(***************************************************************************)
EXTENDS Integers, Sequences, FiniteSets, TLC

VARIABLES generator, config, fs, pc, call, result, lengths, pool, word_list, picks,
          input, oracle, report, passes, cli, stdout, stderr, exit_code,
          threads

vars ==
    <<generator, config, fs, pc, call, result, lengths, pool, word_list, picks,
      input, oracle, report, passes, cli, stdout, stderr, exit_code,
      threads>>

(***************************************************************************)
(* Bounds of the model.                                                    *)
(***************************************************************************)
\* Largest password length and range endpoint a configuration holds.
MaxLen == 2
\* Largest amount passed to generate_multiple.
MaxAmount == 2
\* Largest word count a passphrase configuration holds.
MaxWords == 3
\* Most lines of an external word-list file.
MaxLines == 2
\* Longest string handed to the strength evaluator directly.
MaxInput == 3
\* Most options given on one command line.
MaxFlags == 2
\* Threads that call PasswordGenerator::generate at the same time.
MaxThreads == 2

(***************************************************************************)
(* Results: Result<T, PassForgeError>, and a panic that unwinds the call.  *)
(***************************************************************************)
Ok(v) == [kind |-> "Ok", val |-> v, err |-> "none"]

Err(e) == [kind |-> "Err", val |-> <<>>, err |-> e]

Panic == [kind |-> "Panic", val |-> <<>>, err |-> "none"]

NoResult == [kind |-> "None", val |-> <<>>, err |-> "none"]

(***************************************************************************)
(* config.rs: Length, PasswordConfig, PassphraseConfig, WordList.          *)
(***************************************************************************)
Single(n) == [tag |-> "Single", start |-> n, end |-> n]

Range(min, max) == [tag |-> "Range", start |-> min, end |-> max]

Lengths ==
    {Single(n) : n \in 0..MaxLen}
        \cup {Range(min, max) : min \in 0..MaxLen, max \in 0..MaxLen}

PasswordConfig(length, capitals, numbers, symbols) ==
    [length |-> length, capitals |-> capitals, numbers |-> numbers,
     symbols |-> symbols]

PasswordConfigs ==
    {PasswordConfig(l, c, n, s) :
        l \in Lengths, c \in BOOLEAN, n \in BOOLEAN, s \in BOOLEAN}

WordListDefault == [tag |-> "Default", path |-> "none"]

WordListCustom(path) == [tag |-> "Custom", path |-> path]

PassphraseConfig(words, separator, wl) ==
    [words |-> words, separator |-> separator, word_list |-> wl]

\* The separators a caller passes: the default "-" and the empty string.
Separators == {<<"-">>, <<>>}

(***************************************************************************)
(* The random source.  gen_range(low..=high) returns any value of the      *)
(* range and panics on an empty one.                                       *)
(***************************************************************************)
gen_range(low, high) == low..high

\* The outcomes of a draw from a table of n entries that the model follows:
\* the first and the last index.
DrawnIndices(n) == {i \in gen_range(1, n) : i \in {1, n}}

(***************************************************************************)
(* Length::get_length: the values the call can return.                     *)
(***************************************************************************)
get_length(length) ==
    IF length.tag = "Single" THEN {length.start}
    ELSE gen_range(length.start, length.end)

\* rand panics ("cannot sample empty range") when the range is empty.
get_length_panics(length) ==
    length.tag = "Range" /\ length.start > length.end

(***************************************************************************)
(* PasswordGenerator: the character tables.                                *)
(***************************************************************************)
LOWERCASE ==
    <<"a", "b", "c", "d", "e", "f", "g", "h", "i", "j", "k", "l", "m",
      "n", "o", "p", "q", "r", "s", "t", "u", "v", "w", "x", "y", "z">>

UPPERCASE ==
    <<"A", "B", "C", "D", "E", "F", "G", "H", "I", "J", "K", "L", "M",
      "N", "O", "P", "Q", "R", "S", "T", "U", "V", "W", "X", "Y", "Z">>

NUMBERS == <<"0", "1", "2", "3", "4", "5", "6", "7", "8", "9">>

SYMBOLS ==
    <<"!", "@", "#", "$", "%", "^", "&", "*", "(", ")", "-", "_", "=",
      "+", "[", "]", "{", "}", "|", ";", ":", ",", ".", "<", ">", "?">>

Elems(s) == {s[i] : i \in 1..Len(s)}

\* chars with the symbol table appended whatever the configuration says.
chars_symbols_unconditional(cfg) ==
    LOWERCASE
        \o (IF cfg.capitals THEN UPPERCASE ELSE <<>>)
        \o (IF cfg.numbers THEN NUMBERS ELSE <<>>)
        \o SYMBOLS

\* The vector `chars` of generate: all allowed characters.
chars(cfg) ==
    LOWERCASE
        \o (IF cfg.capitals THEN UPPERCASE ELSE <<>>)
        \o (IF cfg.numbers THEN NUMBERS ELSE <<>>)
        \o (IF cfg.symbols THEN SYMBOLS ELSE <<>>)

\* DrawString over the inclusive range 0..=length: one character too many.
DrawString_inclusive(table, length) ==
    {[k \in 1..(length + 1) |-> table[f[k]]] :
        f \in [1..(length + 1) -> DrawnIndices(Len(table))]}

\* (0..length).map(|_| chars[rng.gen_range(0..chars.len())] as char).collect()
\* Of the strings longer than MaxLen the model follows the ones whose
\* characters were all drawn at the same index.
DrawString(table, length) ==
    IF length <= MaxLen
    THEN {[k \in 1..length |-> table[f[k]]] :
            f \in [1..length -> DrawnIndices(Len(table))]}
    ELSE {[k \in 1..length |-> table[i]] : i \in DrawnIndices(Len(table))}

\* A check that lets the length 0 through.
length_invalid_negative(length) == length < 0

\* The check of the resolved length in generate.
length_invalid(length) == length < 1

\* PasswordGenerator::generate: every run of one call, as the value returned,
\* the length the call resolved and the vector of characters it built.
PasswordGenerate(cfg) ==
    IF get_length_panics(cfg.length)
    THEN {[result |-> Panic, lengths |-> <<>>, pool |-> <<>>]}
    ELSE UNION {
        IF length_invalid(length)
        THEN {[result |-> Err("InvalidLength"), lengths |-> <<length>>,
               pool |-> <<>>]}
        ELSE {[result |-> Ok(s), lengths |-> <<length>>, pool |-> chars(cfg)] :
                s \in DrawString(chars(cfg), length)}
        : length \in get_length(cfg.length)}

\* The check of `amount` in both generate_multiple functions.
amount_invalid(amount) == amount <= 1

RECURSIVE PasswordCollect_skip_failures(_, _)
\* A collect that drops the calls that failed and keeps the rest.
PasswordCollect_skip_failures(cfg, n) ==
    IF n = 0 THEN {[result |-> Ok(<<>>), lengths |-> <<>>, pool |-> <<>>]}
    ELSE UNION {
        IF prev.result.kind # "Ok" THEN {prev}
        ELSE {[result |-> IF g.result.kind = "Ok"
                          THEN Ok(Append(prev.result.val, g.result.val))
                          ELSE IF g.result.kind = "Err" THEN prev.result
                          ELSE g.result,
               lengths |-> prev.lengths \o g.lengths,
               pool |-> g.pool] :
                g \in PasswordGenerate(cfg)}
        : prev \in PasswordCollect_skip_failures(cfg, n - 1)}

\* (0..amount).map(|_| PasswordGenerator::generate(config)).collect():
\* collecting into a Result stops at the first Err.
RECURSIVE PasswordCollect(_, _)
PasswordCollect(cfg, n) ==
    IF n = 0 THEN {[result |-> Ok(<<>>), lengths |-> <<>>, pool |-> <<>>]}
    ELSE UNION {
        IF prev.result.kind # "Ok" THEN {prev}
        ELSE {[result |-> IF g.result.kind = "Ok"
                          THEN Ok(Append(prev.result.val, g.result.val))
                          ELSE g.result,
               lengths |-> prev.lengths \o g.lengths,
               pool |-> g.pool] :
                g \in PasswordGenerate(cfg)}
        : prev \in PasswordCollect(cfg, n - 1)}

\* PasswordGenerator::generate_multiple.
PasswordGenerateMultiple(cfg, amount) ==
    IF amount_invalid(amount)
    THEN {[result |-> Err("InvalidGenAmount"), lengths |-> <<>>, pool |-> <<>>]}
    ELSE PasswordCollect(cfg, amount)

(***************************************************************************)
(* The word-list source.  A file is the sequence of the io::Result<String> *)
(* its line reader yields; a path may name no file.                        *)
(***************************************************************************)
LineOk(text) == [ok |-> TRUE, text |-> text]

LineErr == [ok |-> FALSE, text |-> <<>>]

\* The lines an external file is made of: a bare word, a rank and a word
\* (the format of the builtin list), two words, three words, an empty line,
\* a word holding the default separator, and a line whose read fails.
SampleLines ==
    {LineOk(<<"a">>),
     LineOk(<<"1", "\t", "a">>),
     LineOk(<<"a", " ", "b">>),
     LineOk(<<"a", " ", "b", " ", "c">>),
     LineOk(<<>>),
     LineOk(<<" ", "a", "-", "b">>),
     LineErr}

RECURSIVE SeqsUpTo(_, _)
SeqsUpTo(S, n) ==
    IF n = 0 THEN {<<>>}
    ELSE SeqsUpTo(S, n - 1)
            \cup {Append(q, x) : q \in {r \in SeqsUpTo(S, n - 1) : Len(r) = n - 1},
                                 x \in S}

NoFile == [exists |-> FALSE, lines |-> <<>>]

Files ==
    {NoFile} \cup {[exists |-> TRUE, lines |-> l] : l \in SeqsUpTo(SampleLines, MaxLines)}

\* resources/eff_large_wordlist.txt, one "rank<TAB>word" per line.
DEFAULT_WORD_LIST ==
    <<<<"1", "\t", "a">>, <<"2", "\t", "b">>, <<"3", "\t", "c">>>>

PassphraseConfigs ==
    {PassphraseConfig(w, s, wl) :
        w \in 0..MaxWords, s \in Separators,
        wl \in {WordListDefault, WordListCustom("words.txt")}}

(***************************************************************************)
(* PassphraseGenerator::load_file and get_word_list.                       *)
(***************************************************************************)
RECURSIVE map_while_ok(_)
\* reader.lines().map_while(Result::ok): the lines before the first Err.
map_while_ok(lines) ==
    IF lines = <<>> \/ ~Head(lines).ok THEN <<>>
    ELSE <<Head(lines).text>> \o map_while_ok(Tail(lines))

\* A loader that falls back to the builtin list when the path names no file.
load_file_fallback(wl, file) ==
    IF wl.tag = "Default" \/ ~file.exists THEN Ok(DEFAULT_WORD_LIST)
    ELSE Ok(map_while_ok(file.lines))

\* File::open(path)? fails with Io; the lines are read with map_while.
load_file(wl, file) ==
    IF wl.tag = "Default" THEN Ok(DEFAULT_WORD_LIST)
    ELSE IF ~file.exists THEN Err("Io")
    ELSE Ok(map_while_ok(file.lines))

Whitespace == {" ", "\t"}

RECURSIVE SplitWs(_, _, _)
SplitWs(s, cur, acc) ==
    IF s = <<>> THEN (IF cur = <<>> THEN acc ELSE Append(acc, cur))
    ELSE IF Head(s) \in Whitespace
         THEN SplitWs(Tail(s), <<>>, IF cur = <<>> THEN acc ELSE Append(acc, cur))
         ELSE SplitWs(Tail(s), Append(cur, Head(s)), acc)

\* str::split_whitespace: the maximal runs of non-whitespace characters.
split_whitespace(line) == SplitWs(line, <<>>, <<>>)

\* parts[1].parse().ok() at the type the closure returns, Option<String>:
\* <String as FromStr>::from_str never fails, so the token itself comes back.
parse_ok(token) == <<token>>

\* The filter_map closure of get_word_list: zero or one word of a line.
parse_line(line) ==
    LET parts == split_whitespace(line)
    IN  IF Len(parts) = 1 THEN <<parts[1]>>
        ELSE IF Len(parts) = 2 THEN parse_ok(parts[2])
        ELSE <<>>

RECURSIVE filter_map_lines(_)
filter_map_lines(lines) ==
    IF lines = <<>> THEN <<>>
    ELSE parse_line(Head(lines)) \o filter_map_lines(Tail(lines))

\* get_word_list without the emptiness check.
words_invalid_never(words) == FALSE

\* The check of the parsed list in get_word_list.
words_invalid(words) == words = <<>>

get_word_list(wl, file) ==
    LET loaded == load_file(wl, file)
    IN  IF loaded.kind # "Ok" THEN loaded
        ELSE LET words == filter_map_lines(loaded.val)
             IN  IF words_invalid(words) THEN Err("WordListError")
                 ELSE Ok(words)

(***************************************************************************)
(* PassphraseGenerator::create_passphrase.                                 *)
(***************************************************************************)
Min(a, b) == IF a < b THEN a ELSE b

\* Sampling with replacement: a position may be picked twice.
choose_multiple_with_replacement(len, amount) ==
    [1..Min(amount, len) -> 1..len]

\* SliceRandom::choose_multiple(rng, amount): min(amount, len) positions of
\* the slice, no position twice, in any order.
choose_multiple(len, amount) ==
    {p \in [1..Min(amount, len) -> 1..len] :
        \A i \in DOMAIN p : \A j \in DOMAIN p : i # j => p[i] # p[j]}

RECURSIVE join(_, _)
\* [&str]::join(separator)
join(ws, separator) ==
    IF ws = <<>> THEN <<>>
    ELSE IF Len(ws) = 1 THEN ws[1]
    ELSE ws[1] \o separator \o join(Tail(ws), separator)

\* The words at the picked positions, in draw order.
passphrase_words(list, pick) == [i \in DOMAIN pick |-> list[pick[i]]]

create_passphrase(list, words, separator) ==
    {[result |-> Ok(join(passphrase_words(list, pick), separator)),
      picks |-> <<pick>>] : pick \in choose_multiple(Len(list), words)}

\* The check of the word count in generate and generate_multiple.
word_count_invalid(words) == words <= 1

\* A generate that loads the word list before it checks the word count.
PassphraseGenerate_load_first(cfg, file) ==
    LET wl == get_word_list(cfg.word_list, file)
    IN  IF wl.kind # "Ok"
        THEN {[result |-> wl, word_list |-> <<>>, picks |-> <<>>]}
        ELSE IF word_count_invalid(cfg.words)
        THEN {[result |-> Err("InvalidWordCount"), word_list |-> wl.val,
               picks |-> <<>>]}
        ELSE {[result |-> r.result, word_list |-> wl.val, picks |-> r.picks] :
                r \in create_passphrase(wl.val, cfg.words, cfg.separator)}

\* PassphraseGenerator::generate: every run of one call, as the value
\* returned, the word list loaded and the positions picked.
PassphraseGenerate(cfg, file) ==
    IF word_count_invalid(cfg.words)
    THEN {[result |-> Err("InvalidWordCount"), word_list |-> <<>>, picks |-> <<>>]}
    ELSE LET wl == get_word_list(cfg.word_list, file)
         IN  IF wl.kind # "Ok"
             THEN {[result |-> wl, word_list |-> <<>>, picks |-> <<>>]}
             ELSE {[result |-> r.result, word_list |-> wl.val, picks |-> r.picks] :
                     r \in create_passphrase(wl.val, cfg.words, cfg.separator)}

RECURSIVE PassphraseCollect(_, _, _, _)
\* (0..amount).map(|_| create_passphrase(&word_list, ...)).collect()
PassphraseCollect(list, words, separator, n) ==
    IF n = 0 THEN {[result |-> Ok(<<>>), picks |-> <<>>]}
    ELSE {[result |-> Ok(Append(prev.result.val, r.result.val)),
           picks |-> prev.picks \o r.picks] :
            prev \in PassphraseCollect(list, words, separator, n - 1),
            r \in create_passphrase(list, words, separator)}

\* A generate_multiple that loads the word list before it checks the word
\* count.
PassphraseGenerateMultiple_load_first(cfg, amount, file) ==
    IF amount_invalid(amount)
    THEN {[result |-> Err("InvalidGenAmount"), word_list |-> <<>>, picks |-> <<>>]}
    ELSE LET wl == get_word_list(cfg.word_list, file)
         IN  IF wl.kind # "Ok"
             THEN {[result |-> wl, word_list |-> <<>>, picks |-> <<>>]}
             ELSE IF word_count_invalid(cfg.words)
             THEN {[result |-> Err("InvalidWordCount"), word_list |-> wl.val,
                    picks |-> <<>>]}
             ELSE {[result |-> r.result, word_list |-> wl.val, picks |-> r.picks] :
                     r \in PassphraseCollect(wl.val, cfg.words, cfg.separator, amount)}

\* PassphraseGenerator::generate_multiple.
PassphraseGenerateMultiple(cfg, amount, file) ==
    IF amount_invalid(amount)
    THEN {[result |-> Err("InvalidGenAmount"), word_list |-> <<>>, picks |-> <<>>]}
    ELSE IF word_count_invalid(cfg.words)
    THEN {[result |-> Err("InvalidWordCount"), word_list |-> <<>>, picks |-> <<>>]}
    ELSE LET wl == get_word_list(cfg.word_list, file)
         IN  IF wl.kind # "Ok"
             THEN {[result |-> wl, word_list |-> <<>>, picks |-> <<>>]}
             ELSE {[result |-> r.result, word_list |-> wl.val, picks |-> r.picks] :
                     r \in PassphraseCollect(wl.val, cfg.words, cfg.separator, amount)}

(***************************************************************************)
(* ZxcvbnAnalysis.  The zxcvbn estimator is an oracle: a function from the *)
(* string to a score of 0..4 and a crack-time text, fixed during one       *)
(* behaviour and arbitrary across behaviours.  The oracles followed tell   *)
(* the strings that begin with "a" from all others.                        *)
(***************************************************************************)
MIN_PASS_SCORE == 3

Scores == 0..4

CrackTimes == {<<"less than a second">>, <<"centuries">>}

Estimates == [score : Scores, crack_time : CrackTimes]

OracleKey(s) == s # <<>> /\ Head(s) = "a"

Oracles == [BOOLEAN -> Estimates]

\* zxcvbn(input, &[]) under the oracle o.
zxcvbn(o, s) == o[OracleKey(s)]

\* Both functions reject the empty password first.
input_invalid(s) == s = <<>>

\* A threshold test that accepts every score.
meets_threshold_always(score) == TRUE

\* (score as u8) >= Self::MIN_PASS_SCORE
meets_threshold(score) == score >= MIN_PASS_SCORE

\* ZxcvbnAnalysis::passes_threshold
passes_threshold(o, s) ==
    IF input_invalid(s) THEN Err("InvalidLength")
    ELSE Ok(meets_threshold(zxcvbn(o, s).score))

\* Display of a score: its decimal digit.
score_to_string(score) == <<NUMBERS[score + 1]>>

\* format!("Score: {}/4, Crack time: {}", score, crack_time)
format_evaluation(estimate) ==
    <<"Score: ">> \o score_to_string(estimate.score)
        \o <<"/4, Crack time: ">> \o estimate.crack_time

\* An evaluate without the check of the empty password.
evaluate_unchecked(o, s) == Ok(format_evaluation(zxcvbn(o, s)))

\* ZxcvbnAnalysis::evaluate
evaluate(o, s) ==
    IF input_invalid(s) THEN Err("InvalidLength")
    ELSE Ok(format_evaluation(zxcvbn(o, s)))

\* The strings a caller hands to the evaluator.
Inputs == SeqsUpTo({"a", "1"}, MaxInput)

\* The oracle of a behaviour that never evaluates.
NoOracle == [k \in BOOLEAN |-> [score |-> 0, crack_time |-> <<>>]]

EvaluatorIdle ==
    /\ input = <<>>
    /\ oracle = NoOracle
    /\ report = NoResult
    /\ passes = NoResult

(***************************************************************************)
(* Configuration defaults, builders and presets (config.rs).               *)
(***************************************************************************)
DEFAULT_LENGTH == 18

DEFAULT_WORDS == 6

DEFAULT_SEPARATOR == <<"-">>

\* Option<T>: None carries a placeholder of T's type.
Some(v) == [is_some |-> TRUE, val |-> v]

None(placeholder) == [is_some |-> FALSE, val |-> placeholder]

unwrap_or(opt, default) == IF opt.is_some THEN opt.val ELSE default

ConfigPresets == {"Weak", "Average", "Strong"}

\* PasswordConfigBuilder: #[derive(Default)], every field None.
PasswordConfigBuilderDefault ==
    [length |-> None(Single(0)), capitals |-> None(FALSE),
     numbers |-> None(FALSE), symbols |-> None(FALSE)]

\* The builders the setters length, capitals, numbers and symbols produce.
PasswordConfigBuilders ==
    [length : {None(Single(0))} \cup {Some(l) : l \in Lengths},
     capitals : {None(FALSE), Some(FALSE), Some(TRUE)},
     numbers : {None(FALSE), Some(FALSE)},
     symbols : {None(FALSE), Some(TRUE)}]

\* PasswordConfigBuilder::build
password_build(self) ==
    PasswordConfig(unwrap_or(self.length, Single(DEFAULT_LENGTH)),
                   unwrap_or(self.capitals, TRUE),
                   unwrap_or(self.numbers, TRUE),
                   unwrap_or(self.symbols, TRUE))

\* The preset table for passwords.
password_preset(preset) ==
    CASE preset = "Weak" -> PasswordConfig(Single(8), TRUE, TRUE, FALSE)
      [] preset = "Average" -> PasswordConfig(Single(16), TRUE, TRUE, TRUE)
      [] preset = "Strong" -> PasswordConfig(Single(32), TRUE, TRUE, TRUE)

\* A build_from_preset that lets the setters called before it win.
password_build_from_preset_after_setters(self, preset) ==
    LET p == password_preset(preset)
    IN  PasswordConfig(unwrap_or(self.length, p.length),
                       unwrap_or(self.capitals, p.capitals),
                       unwrap_or(self.numbers, p.numbers),
                       unwrap_or(self.symbols, p.symbols))

\* PasswordConfigBuilder::build_from_preset: `self` is consumed and unread.
password_build_from_preset(self, preset) == password_preset(preset)

\* PassphraseConfigBuilder: #[derive(Default)], every field None.
PassphraseConfigBuilderDefault ==
    [words |-> None(0), separator |-> None(<<>>),
     word_list |-> None(WordListDefault)]

\* The builders the setters words, separator and word_list produce.
PassphraseConfigBuilders ==
    [words : {None(0)} \cup {Some(w) : w \in 0..MaxWords},
     separator : {None(<<>>)} \cup {Some(sep) : sep \in Separators},
     word_list : {None(WordListDefault), Some(WordListDefault),
                  Some(WordListCustom("words.txt"))}]

\* PassphraseConfigBuilder::build
passphrase_build(self) ==
    PassphraseConfig(unwrap_or(self.words, DEFAULT_WORDS),
                     unwrap_or(self.separator, DEFAULT_SEPARATOR),
                     unwrap_or(self.word_list, WordListDefault))

\* A build_from_preset whose presets all keep the default word count.
passphrase_build_from_preset_default_words(self, preset) ==
    PassphraseConfig(DEFAULT_WORDS, <<"-">>, WordListDefault)

\* PassphraseConfigBuilder::build_from_preset: `self` is consumed and unread.
passphrase_build_from_preset(self, preset) ==
    CASE preset = "Weak" -> PassphraseConfig(4, <<"-">>, WordListDefault)
      [] preset = "Average" -> PassphraseConfig(8, <<"-">>, WordListDefault)
      [] preset = "Strong" -> PassphraseConfig(16, <<"-">>, WordListDefault)

(***************************************************************************)
(* The passforge binary (bin/passforge.rs): the parsed command line, the   *)
(* configuration it builds, the items it generates and what it prints.    *)
(* A line of output is a sequence whose entries are the characters of a   *)
(* printed item or the literal pieces of a format string.                 *)
(***************************************************************************)
DEFAULT_COUNT == 1

\* struct Cli as clap fills it when no option is given.
DefaultCli ==
    [min_length |-> DEFAULT_LENGTH, max_length |-> None(0),
     count |-> DEFAULT_COUNT, no_capitals |-> FALSE, no_numbers |-> FALSE,
     no_symbols |-> FALSE, passphrase |-> FALSE, words |-> DEFAULT_WORDS,
     separator |-> DEFAULT_SEPARATOR, word_list |-> None("none"),
     evaluate_strength |-> FALSE, preset |-> None(<<>>)]

\* The values given to --preset: the three names, one capitalised, one
\* that is no preset.
PresetStrings ==
    {<<"w", "e", "a", "k">>, <<"a", "v", "e", "r", "a", "g", "e">>,
     <<"s", "t", "r", "o", "n", "g">>, <<"W", "e", "a", "k">>,
     <<"w", "e", "e", "k">>}

\* One option with its value: the field of Cli it sets and what it sets.
Flags ==
    ({"min_length"} \X (0..MaxLen))
        \cup ({"max_length"} \X {Some(n) : n \in 0..MaxLen})
        \cup ({"count"} \X (0..MaxAmount))
        \cup ({"no_capitals", "no_numbers", "no_symbols", "passphrase",
               "evaluate_strength"} \X {TRUE})
        \cup ({"words"} \X (0..MaxWords))
        \cup ({"separator"} \X {<<>>})
        \cup ({"word_list"} \X {Some("words.txt")})
        \cup ({"preset"} \X {Some(str) : str \in PresetStrings})

RECURSIVE CliWith(_)
\* The command lines that give at most n options.
CliWith(n) ==
    IF n = 0 THEN {DefaultCli}
    ELSE LET fewer == CliWith(n - 1)
         IN  fewer \cup {[c EXCEPT ![f[1]] = f[2]] : c \in fewer, f \in Flags}

\* The command lines that give --length, --max-length and --count together.
LengthAndCount ==
    {[DefaultCli EXCEPT !.min_length = a, !.max_length = Some(b), !.count = n] :
        a \in 0..MaxLen, b \in 0..MaxLen, n \in 0..MaxAmount}

CliInputs == CliWith(MaxFlags) \cup LengthAndCount

\* str::to_lowercase on the ASCII letters.
to_lowercase(str) ==
    [i \in DOMAIN str |->
        IF \E k \in DOMAIN UPPERCASE : UPPERCASE[k] = str[i]
        THEN LOWERCASE[CHOOSE k \in DOMAIN UPPERCASE : UPPERCASE[k] = str[i]]
        ELSE str[i]]

parse_preset(preset_str) ==
    LET lower == to_lowercase(preset_str)
    IN  CASE lower = <<"w", "e", "a", "k">> -> Ok("Weak")
          [] lower = <<"a", "v", "e", "r", "a", "g", "e">> -> Ok("Average")
          [] lower = <<"s", "t", "r", "o", "n", "g">> -> Ok("Strong")
          [] OTHER -> Err("InvalidConfig")

\* A parser that turns every maximum into a range.
parse_length_unchecked(min, max) ==
    IF max.is_some THEN Ok(Range(min, max.val)) ELSE Ok(Single(min))

parse_length(min, max) ==
    IF max.is_some /\ max.val > min THEN Ok(Range(min, max.val))
    ELSE IF max.is_some /\ max.val = min THEN Ok(Single(min))
    ELSE IF max.is_some THEN Err("InvalidLength")
    ELSE Ok(Single(min))

\* A gen_password that applies the class options on top of the preset.
password_config_flags_over_preset(args) ==
    IF args.preset.is_some
    THEN LET preset == parse_preset(args.preset.val)
         IN  IF preset.kind = "Err" THEN preset
             ELSE LET p == password_build_from_preset(
                               PasswordConfigBuilderDefault, preset.val)
                  IN  Ok(PasswordConfig(p.length,
                                        p.capitals /\ ~args.no_capitals,
                                        p.numbers /\ ~args.no_numbers,
                                        p.symbols /\ ~args.no_symbols))
    ELSE LET length == parse_length(args.min_length, args.max_length)
         IN  IF length.kind = "Err" THEN length
             ELSE Ok(PasswordConfig(length.val, ~args.no_capitals,
                                    ~args.no_numbers, ~args.no_symbols))

\* gen_password: `let config = ...`, each `?` returning the error.
password_config(args) ==
    IF args.preset.is_some
    THEN LET preset == parse_preset(args.preset.val)
         IN  IF preset.kind = "Err" THEN preset
             ELSE Ok(password_build_from_preset(
                         PasswordConfigBuilderDefault, preset.val))
    ELSE LET length == parse_length(args.min_length, args.max_length)
         IN  IF length.kind = "Err" THEN length
             ELSE Ok(PasswordConfig(length.val, ~args.no_capitals,
                                    ~args.no_numbers, ~args.no_symbols))

\* gen_passphrase: `let config = ...`.
passphrase_config(args) ==
    IF args.preset.is_some
    THEN LET preset == parse_preset(args.preset.val)
         IN  IF preset.kind = "Err" THEN preset
             ELSE Ok(passphrase_build_from_preset(
                         PassphraseConfigBuilderDefault, preset.val))
    ELSE Ok(PassphraseConfig(args.words, args.separator,
                IF args.word_list.is_some
                THEN WordListCustom(args.word_list.val)
                ELSE WordListDefault))

\* G::generate(config) for the generator type G, with the locals of both
\* generators side by side.
G_generate(G, cfg, file) ==
    IF G = "PasswordGenerator"
    THEN {[result |-> r.result, lengths |-> r.lengths, pool |-> r.pool,
           word_list |-> <<>>, picks |-> <<>>] : r \in PasswordGenerate(cfg)}
    ELSE {[result |-> r.result, lengths |-> <<>>, pool |-> <<>>,
           word_list |-> r.word_list, picks |-> r.picks] :
            r \in PassphraseGenerate(cfg, file)}

\* G::generate_multiple(config, count)
G_generate_multiple(G, cfg, count, file) ==
    IF G = "PasswordGenerator"
    THEN {[result |-> r.result, lengths |-> r.lengths, pool |-> r.pool,
           word_list |-> <<>>, picks |-> <<>>] :
            r \in PasswordGenerateMultiple(cfg, count)}
    ELSE {[result |-> r.result, lengths |-> <<>>, pool |-> <<>>,
           word_list |-> r.word_list, picks |-> r.picks] :
            r \in PassphraseGenerateMultiple(cfg, count, file)}

\* println!("Strength: {}", evaluation)
strength_line(evaluation) == <<"Strength: ">> \o evaluation

\* eprintln!("Error evaluating strength: {}", e)
strength_error_line(e) == <<"Error evaluating strength: ", e>>

\* A loop body that prints the item and never its strength.
print_item_only(item, evaluate_strength, o) ==
    [out |-> <<item>>, err |-> <<>>]

\* The body of `for item in items`: the lines it adds to stdout and to
\* stderr.  item.to_string().parse::<String>() cannot fail.
print_item(item, evaluate_strength, o) ==
    IF ~evaluate_strength THEN [out |-> <<item>>, err |-> <<>>]
    ELSE LET evaluation == evaluate(o, item)
         IN  IF evaluation.kind = "Ok"
             THEN [out |-> <<item, strength_line(evaluation.val)>>,
                   err |-> <<>>]
             ELSE [out |-> <<item>>,
                   err |-> <<strength_error_line(evaluation.err)>>]

RECURSIVE print_items(_, _, _)
\* for item in items { ... }
print_items(items, evaluate_strength, o) ==
    IF items = <<>> THEN [out |-> <<>>, err |-> <<>>]
    ELSE LET first == print_item(Head(items), evaluate_strength, o)
             rest == print_items(Tail(items), evaluate_strength, o)
         IN  [out |-> first.out \o rest.out, err |-> first.err \o rest.err]

\* A match that sends count 1 to generate_multiple as well.
single_item_never(count) == FALSE

\* The arm `1 => vec![G::generate(config)?]` of `match count`.
single_item(count) == count = 1

RECURSIVE generate_and_print(_, _, _, _, _, _)
\* A loop that generates one item and prints it before it generates the next.
generate_and_print(G, cfg, n, evaluate_strength, o, file) ==
    IF n = 0
    THEN {[result |-> Ok(<<>>), stdout |-> <<>>, stderr |-> <<>>,
           lengths |-> <<>>, pool |-> <<>>, word_list |-> <<>>, picks |-> <<>>]}
    ELSE UNION {
           IF prev.result.kind # "Ok" THEN {prev}
           ELSE {LET printed == IF r.result.kind = "Ok"
                                THEN print_item(r.result.val, evaluate_strength, o)
                                ELSE [out |-> <<>>, err |-> <<>>]
                 IN  [result |-> IF r.result.kind = "Ok" THEN Ok(<<>>)
                                 ELSE r.result,
                      stdout |-> prev.stdout \o printed.out,
                      stderr |-> prev.stderr \o printed.err,
                      lengths |-> prev.lengths \o r.lengths,
                      pool |-> r.pool,
                      word_list |-> r.word_list,
                      picks |-> prev.picks \o r.picks] :
                   r \in G_generate(G, cfg, file)} :
           prev \in generate_and_print(G, cfg, n - 1, evaluate_strength, o, file)}

\* A generate_items that prints each item as soon as it is generated.
generate_items_print_as_generated(G, cfg, count, evaluate_strength, o, file) ==
    IF count = 0
    THEN {[result |-> Err("InvalidGenAmount"), stdout |-> <<>>, stderr |-> <<>>,
           lengths |-> <<>>, pool |-> <<>>, word_list |-> <<>>, picks |-> <<>>]}
    ELSE generate_and_print(G, cfg, count, evaluate_strength, o, file)

\* generate_items: every run, as the value returned, the lines printed
\* and the locals of the generator call.
generate_items(G, cfg, count, evaluate_strength, o, file) ==
    IF count = 0
    THEN {[result |-> Err("InvalidGenAmount"), stdout |-> <<>>, stderr |-> <<>>,
           lengths |-> <<>>, pool |-> <<>>, word_list |-> <<>>, picks |-> <<>>]}
    ELSE {LET items == IF single_item(count) THEN <<r.result.val>>
                       ELSE r.result.val
              printed == IF r.result.kind = "Ok"
                         THEN print_items(items, evaluate_strength, o)
                         ELSE [out |-> <<>>, err |-> <<>>]
          IN  [result |-> IF r.result.kind = "Ok" THEN Ok(<<>>) ELSE r.result,
               stdout |-> printed.out, stderr |-> printed.err,
               lengths |-> r.lengths, pool |-> r.pool,
               word_list |-> r.word_list, picks |-> r.picks] :
            r \in IF single_item(count) THEN G_generate(G, cfg, file)
                  ELSE G_generate_multiple(G, cfg, count, file)}

NoConfig == <<>>

\* gen_password and gen_passphrase after the configuration is built.
gen_with(G, built, args, o, file) ==
    IF built.kind = "Err"
    THEN {[config |-> NoConfig, result |-> built, stdout |-> <<>>,
           stderr |-> <<>>, lengths |-> <<>>, pool |-> <<>>,
           word_list |-> <<>>, picks |-> <<>>]}
    ELSE {[config |-> built.val, result |-> r.result, stdout |-> r.stdout,
           stderr |-> r.stderr, lengths |-> r.lengths, pool |-> r.pool,
           word_list |-> r.word_list, picks |-> r.picks] :
            r \in generate_items(G, built.val, args.count,
                                 args.evaluate_strength, o, file)}

gen_password(args, o, file) ==
    gen_with("PasswordGenerator", password_config(args), args, o, file)

gen_passphrase(args, o, file) ==
    gen_with("PassphraseGenerator", passphrase_config(args), args, o, file)

\* eprintln!("Error: {}", msg)
error_line(e) == <<"Error: ", e>>

\* main: the result of the generation function becomes the exit status;
\* a panic ends the process with status 101 and a message on stderr.
main(args, o, file) ==
    {[config |-> r.config, result |-> r.result, stdout |-> r.stdout,
      stderr |-> IF r.result.kind = "Err"
                 THEN r.stderr \o <<error_line(r.result.err)>>
                 ELSE IF r.result.kind = "Panic"
                 THEN r.stderr \o <<<<"thread 'main' panicked">>>>
                 ELSE r.stderr,
      exit_code |-> IF r.result.kind = "Ok" THEN 0
                    ELSE IF r.result.kind = "Err" THEN 1 ELSE 101,
      lengths |-> r.lengths, pool |-> r.pool, word_list |-> r.word_list,
      picks |-> r.picks] :
        r \in IF args.passphrase THEN gen_passphrase(args, o, file)
              ELSE gen_password(args, o, file)}

\* No command line has been run.
CliIdle ==
    /\ cli = DefaultCli
    /\ stdout = <<>>
    /\ stderr = <<>>
    /\ exit_code = -1

\* No thread is calling the generator.
ThreadsIdle == threads = <<>>

(***************************************************************************)
(* The state machine: a caller holding one generator and its configuration *)
(* makes one call.                                                         *)
(***************************************************************************)
NoCall == [op |-> "none", amount |-> 0]

Init ==
    /\ pc = "idle"
    /\ call = NoCall
    /\ result = NoResult
    /\ lengths = <<>>
    /\ pool = <<>>
    /\ word_list = <<>>
    /\ picks = <<>>
    /\ \/ /\ generator = "PasswordGenerator"
          /\ config \in PasswordConfigs
          /\ fs = NoFile
       \/ /\ generator = "PassphraseGenerator"
          /\ config \in PassphraseConfigs
          /\ fs \in Files
          /\ config.word_list.tag = "Default" => fs = NoFile
    /\ EvaluatorIdle
    /\ CliIdle
    /\ ThreadsIdle

\* PasswordGenerator::generate(&config)
CallPasswordGenerate ==
    /\ pc = "idle"
    /\ generator = "PasswordGenerator"
    /\ \E run \in PasswordGenerate(config) :
        /\ result' = run.result
        /\ lengths' = run.lengths
        /\ pool' = run.pool
    /\ call' = [op |-> "generate", amount |-> 1]
    /\ pc' = "returned"
    /\ UNCHANGED <<generator, config, fs, word_list, picks,
                   input, oracle, report, passes, cli, stdout, stderr,
                   exit_code, threads>>

\* PasswordGenerator::generate_multiple(&config, amount)
CallPasswordGenerateMultiple ==
    /\ pc = "idle"
    /\ generator = "PasswordGenerator"
    /\ \E amount \in 0..MaxAmount :
        /\ \E run \in PasswordGenerateMultiple(config, amount) :
            /\ result' = run.result
            /\ lengths' = run.lengths
            /\ pool' = run.pool
        /\ call' = [op |-> "generate_multiple", amount |-> amount]
    /\ pc' = "returned"
    /\ UNCHANGED <<generator, config, fs, word_list, picks,
                   input, oracle, report, passes, cli, stdout, stderr,
                   exit_code, threads>>

\* PassphraseGenerator::generate(&config)
CallPassphraseGenerate ==
    /\ pc = "idle"
    /\ generator = "PassphraseGenerator"
    /\ \E run \in PassphraseGenerate(config, fs) :
        /\ result' = run.result
        /\ word_list' = run.word_list
        /\ picks' = run.picks
    /\ call' = [op |-> "generate", amount |-> 1]
    /\ pc' = "returned"
    /\ UNCHANGED <<generator, config, fs, lengths, pool,
                   input, oracle, report, passes, cli, stdout, stderr,
                   exit_code, threads>>

\* PassphraseGenerator::generate_multiple(&config, amount)
CallPassphraseGenerateMultiple ==
    /\ pc = "idle"
    /\ generator = "PassphraseGenerator"
    /\ \E amount \in 0..MaxAmount :
        /\ \E run \in PassphraseGenerateMultiple(config, amount, fs) :
            /\ result' = run.result
            /\ word_list' = run.word_list
            /\ picks' = run.picks
        /\ call' = [op |-> "generate_multiple", amount |-> amount]
    /\ pc' = "returned"
    /\ UNCHANGED <<generator, config, fs, lengths, pool,
                   input, oracle, report, passes, cli, stdout, stderr,
                   exit_code, threads>>

Next ==
    \/ CallPasswordGenerate
    \/ CallPasswordGenerateMultiple
    \/ CallPassphraseGenerate
    \/ CallPassphraseGenerateMultiple

Spec == Init /\ [][Next]_vars

(***************************************************************************)
(* A caller of the strength evaluator: it holds one string and calls       *)
(* evaluate and passes_threshold on it, each once, in either order.        *)
(***************************************************************************)
InitEvaluator ==
    /\ pc = "idle"
    /\ generator = "ZxcvbnAnalysis"
    /\ config = <<>>
    /\ fs = NoFile
    /\ call = NoCall
    /\ result = NoResult
    /\ lengths = <<>>
    /\ pool = <<>>
    /\ word_list = <<>>
    /\ picks = <<>>
    /\ input \in Inputs
    /\ oracle \in Oracles
    /\ report = NoResult
    /\ passes = NoResult
    /\ CliIdle
    /\ ThreadsIdle

\* ZxcvbnAnalysis::evaluate(&input)
CallEvaluate ==
    /\ generator = "ZxcvbnAnalysis"
    /\ report.kind = "None"
    /\ report' = evaluate(oracle, input)
    /\ call' = [op |-> "evaluate", amount |-> 1]
    /\ pc' = "returned"
    /\ UNCHANGED <<generator, config, fs, result, lengths, pool, word_list,
                   picks, input, oracle, passes, cli, stdout, stderr,
                   exit_code, threads>>

\* ZxcvbnAnalysis::passes_threshold(&input)
CallPassesThreshold ==
    /\ generator = "ZxcvbnAnalysis"
    /\ passes.kind = "None"
    /\ passes' = passes_threshold(oracle, input)
    /\ call' = [op |-> "passes_threshold", amount |-> 1]
    /\ pc' = "returned"
    /\ UNCHANGED <<generator, config, fs, result, lengths, pool, word_list,
                   picks, input, oracle, report, cli, stdout, stderr,
                   exit_code, threads>>

NextEvaluator ==
    \/ CallEvaluate
    \/ CallPassesThreshold

SpecEvaluator == InitEvaluator /\ [][NextEvaluator]_vars

(***************************************************************************)
(* One run of the passforge binary on a parsed command line.               *)
(***************************************************************************)
\* The external files a command line with --word-list finds at its path.
CliFiles == {f \in Files : Len(f.lines) <= 1}

\* The oracles followed by the runs that evaluate: the two kinds of string
\* get different crack times and scores that add up to 4.
CliOracles ==
    {o \in Oracles :
        /\ o[TRUE].crack_time # o[FALSE].crack_time
        /\ o[TRUE].score + o[FALSE].score = 4}

InitCli ==
    /\ pc = "idle"
    /\ generator = "passforge"
    /\ config = NoConfig
    /\ call = NoCall
    /\ result = NoResult
    /\ lengths = <<>>
    /\ pool = <<>>
    /\ word_list = <<>>
    /\ picks = <<>>
    /\ input = <<>>
    /\ report = NoResult
    /\ passes = NoResult
    /\ cli \in CliInputs
    /\ fs \in IF cli.word_list.is_some THEN CliFiles ELSE {NoFile}
    /\ oracle \in IF cli.evaluate_strength THEN CliOracles ELSE {NoOracle}
    /\ stdout = <<>>
    /\ stderr = <<>>
    /\ exit_code = -1
    /\ ThreadsIdle

\* fn main() on the parsed command line `cli`.
Main ==
    /\ pc = "idle"
    /\ generator = "passforge"
    /\ \E run \in main(cli, oracle, fs) :
        /\ config' = run.config
        /\ result' = run.result
        /\ stdout' = run.stdout
        /\ stderr' = run.stderr
        /\ exit_code' = run.exit_code
        /\ lengths' = run.lengths
        /\ pool' = run.pool
        /\ word_list' = run.word_list
        /\ picks' = run.picks
    /\ generator' = IF cli.passphrase THEN "PassphraseGenerator"
                    ELSE "PasswordGenerator"
    /\ call' = [op |-> "main", amount |-> cli.count]
    /\ pc' = "exited"
    /\ UNCHANGED <<fs, input, oracle, report, passes, cli, threads>>

NextCli == Main

SpecCli == InitCli /\ [][NextCli]_vars

(***************************************************************************)
(* Several threads call PasswordGenerator::generate(&config) on one shared *)
(* configuration, as the parallel benchmark does.  A call is three steps:  *)
(* the length is resolved, the length is checked and the vector of allowed *)
(* characters built, the characters are drawn.  The locals of a call and   *)
(* its thread_rng belong to its thread.                                    *)
(***************************************************************************)
Threads == 1..MaxThreads

\* The shared configurations: every length, the optional classes all on or
\* all off.
SharedConfigs ==
    {c \in PasswordConfigs : c.capitals = c.numbers /\ c.numbers = c.symbols}

\* A `length` kept in one place for all threads: a call reads the length
\* another call resolved, if there is one.
length_of_any(ts, t) ==
    IF \E u \in DOMAIN ts : u # t /\ ts[u].pc # "call" /\ ts[u].result.kind # "Panic"
    THEN ts[CHOOSE u \in DOMAIN ts :
                u # t /\ ts[u].pc # "call" /\ ts[u].result.kind # "Panic"].length
    ELSE ts[t].length

\* `let length`: a local of the call of thread t.
length_of(ts, t) == ts[t].length

InitThreads ==
    /\ pc = "idle"
    /\ generator = "PasswordGenerator"
    /\ config \in SharedConfigs
    /\ fs = NoFile
    /\ call = NoCall
    /\ result = NoResult
    /\ lengths = <<>>
    /\ pool = <<>>
    /\ word_list = <<>>
    /\ picks = <<>>
    /\ EvaluatorIdle
    /\ CliIdle
    /\ threads = [t \in Threads |->
                    [pc |-> "call", length |-> 0, chars |-> <<>>,
                     result |-> NoResult]]

\* let length = config.length.get_length();
ResolveLength(t) ==
    /\ threads[t].pc = "call"
    /\ IF get_length_panics(config.length)
       THEN threads' = [threads EXCEPT ![t].pc = "returned",
                                       ![t].result = Panic]
       ELSE \E length \in get_length(config.length) :
                threads' = [threads EXCEPT ![t].pc = "resolved",
                                           ![t].length = length]
    /\ UNCHANGED <<generator, config, fs, pc, call, result, lengths, pool,
                   word_list, picks, input, oracle, report, passes, cli,
                   stdout, stderr, exit_code>>

\* if length < 1 { return Err(..) } and the building of `chars`.
CheckLengthAndBuild(t) ==
    /\ threads[t].pc = "resolved"
    /\ IF length_invalid(length_of(threads, t))
       THEN threads' = [threads EXCEPT ![t].pc = "returned",
                                       ![t].result = Err("InvalidLength")]
       ELSE threads' = [threads EXCEPT ![t].pc = "built",
                                       ![t].chars = chars(config)]
    /\ UNCHANGED <<generator, config, fs, pc, call, result, lengths, pool,
                   word_list, picks, input, oracle, report, passes, cli,
                   stdout, stderr, exit_code>>

\* The drawing of the characters and Ok(result).
DrawAndReturn(t) ==
    /\ threads[t].pc = "built"
    /\ \E str \in DrawString(threads[t].chars, length_of(threads, t)) :
            threads' = [threads EXCEPT ![t].pc = "returned",
                                       ![t].result = Ok(str)]
    /\ UNCHANGED <<generator, config, fs, pc, call, result, lengths, pool,
                   word_list, picks, input, oracle, report, passes, cli,
                   stdout, stderr, exit_code>>

NextThreads ==
    \E t \in Threads :
        \/ ResolveLength(t)
        \/ CheckLengthAndBuild(t)
        \/ DrawAndReturn(t)

SpecThreads == InitThreads /\ [][NextThreads]_vars

(***************************************************************************)
(* What the properties below read off a state.                             *)
(***************************************************************************)
Returned(gen, op) == pc = "returned" /\ generator = gen /\ call.op = op

Succeeded(gen, op) == Returned(gen, op) /\ result.kind = "Ok"

Failed(e) == result.kind = "Err" /\ result.err = e

\* The strings a successful call returned: one, or the elements of the vector.
Outputs == IF call.op = "generate" THEN <<result.val>> ELSE result.val

\* The characters a configuration allows, class by class.
AllowedCharacters(cfg) ==
    Elems(LOWERCASE)
        \cup (IF cfg.capitals THEN Elems(UPPERCASE) ELSE {})
        \cup (IF cfg.numbers THEN Elems(NUMBERS) ELSE {})
        \cup (IF cfg.symbols THEN Elems(SYMBOLS) ELSE {})

PairwiseDistinct(s) ==
    \A i \in DOMAIN s : \A j \in DOMAIN s : i # j => s[i] # s[j]

(***************************************************************************)
(* C1: whenever PasswordGenerator::generate succeeds, the returned string  *)
(* is as long as the length the call resolved: exactly n for Single(n),    *)
(* and between min and max for Range(min..=max).                           *)
(***************************************************************************)
C1_LengthIsResolvedLength ==
    Succeeded("PasswordGenerator", "generate") =>
        /\ Len(lengths) = 1
        /\ Len(result.val) = lengths[1]
        /\ config.length.tag = "Single" => Len(result.val) = config.length.start
        /\ config.length.tag = "Range" =>
            /\ config.length.start <= Len(result.val)
            /\ Len(result.val) <= config.length.end

\* A range with min < max whose call returned a password of length max.
C1_Witness ==
    /\ Succeeded("PasswordGenerator", "generate")
    /\ config.length.tag = "Range"
    /\ 1 <= config.length.start
    /\ config.length.start < config.length.end
    /\ Len(result.val) = config.length.end

(***************************************************************************)
(* C2: every character of every password returned belongs to the lowercase *)
(* table or to an enabled class; no character of a disabled class          *)
(* (uppercase, digits, symbols) appears in any output.  Every character    *)
(* returned is an entry of the vector the call built, and every entry of   *)
(* that vector, drawn or not, is an allowed character.                     *)
(***************************************************************************)
\* The characters of the classes a configuration disables.
DisabledCharacters(cfg) ==
    (IF cfg.capitals THEN {} ELSE Elems(UPPERCASE))
        \cup (IF cfg.numbers THEN {} ELSE Elems(NUMBERS))
        \cup (IF cfg.symbols THEN {} ELSE Elems(SYMBOLS))

C2_OnlyEnabledClasses ==
    (pc = "returned" /\ generator = "PasswordGenerator" /\ result.kind = "Ok") =>
        LET entries == Elems(pool)
        IN  /\ \A k \in DOMAIN Outputs : Elems(Outputs[k]) \subseteq entries
            /\ entries \subseteq AllowedCharacters(config)
            /\ entries \cap DisabledCharacters(config) = {}

\* Symbols disabled, digits enabled, and a password that holds a digit.
C2_Witness ==
    /\ Succeeded("PasswordGenerator", "generate")
    /\ ~config.symbols
    /\ config.numbers
    /\ \E i \in DOMAIN result.val : result.val[i] \in Elems(NUMBERS)

(***************************************************************************)
(* C3: for both generators, generate_multiple fails with InvalidGenAmount  *)
(* exactly when amount < 1; amount = 1 is valid and returns a vector of    *)
(* one element whenever one generate call on the configuration can succeed.*)
(***************************************************************************)
C3_AmountOneIsValid ==
    (pc = "returned" /\ call.op = "generate_multiple") =>
        /\ Failed("InvalidGenAmount") <=> call.amount < 1
        /\ (call.amount = 1 /\ result.kind = "Ok") => Len(result.val) = 1

(***************************************************************************)
(* C4: whenever generate_multiple(config, k) succeeds it returns exactly k *)
(* outputs; each password is as long as the length resolved for it and     *)
(* holds allowed characters only; each passphrase is word_count words of   *)
(* the loaded list joined by the separator.                                *)
(***************************************************************************)
C4_MultipleOutputsKeepContract ==
    (pc = "returned" /\ call.op = "generate_multiple" /\ result.kind = "Ok") =>
        /\ Len(result.val) = call.amount
        /\ generator = "PasswordGenerator" =>
            /\ Len(lengths) = call.amount
            /\ \A k \in DOMAIN result.val :
                /\ Len(result.val[k]) = lengths[k]
                /\ Elems(result.val[k]) \subseteq AllowedCharacters(config)
        /\ generator = "PassphraseGenerator" =>
            /\ Len(picks) = call.amount
            /\ \A k \in DOMAIN result.val :
                /\ Len(picks[k]) = config.words
                /\ result.val[k] =
                    join(passphrase_words(word_list, picks[k]), config.separator)

(***************************************************************************)
(* C5: a passphrase returned for word_count = w and separator s splits on  *)
(* s into exactly w segments.  It is stated here for the separators that   *)
(* can delimit at all, a non-empty s that occurs in no word of the loaded  *)
(* list; a state that violates this violates the claim as written.         *)
(***************************************************************************)
RECURSIVE CountMatches(_, _)
\* The matches of a non-empty separator, found left to right without overlap.
CountMatches(s, sep) ==
    IF Len(s) < Len(sep) THEN 0
    ELSE IF SubSeq(s, 1, Len(sep)) = sep
         THEN 1 + CountMatches(SubSeq(s, Len(sep) + 1, Len(s)), sep)
         ELSE CountMatches(Tail(s), sep)

\* str::split(sep).count(): the empty separator matches at every character
\* boundary, both ends included.
SplitSegments(s, sep) ==
    IF sep = <<>> THEN Len(s) + 2 ELSE CountMatches(s, sep) + 1

C5_SplitsIntoWordCount ==
    (/\ Succeeded("PassphraseGenerator", "generate")
     /\ config.separator # <<>>
     /\ \A i \in DOMAIN word_list :
            CountMatches(word_list[i], config.separator) = 0) =>
        SplitSegments(result.val, config.separator) = config.words

(***************************************************************************)
(* C6: the words drawn for one passphrase are pairwise distinct, for any   *)
(* loaded word list.                                                       *)
(***************************************************************************)
C6_WordsPairwiseDistinct ==
    (pc = "returned" /\ generator = "PassphraseGenerator" /\ result.kind = "Ok") =>
        \A k \in DOMAIN picks :
            PairwiseDistinct(passphrase_words(word_list, picks[k]))

(***************************************************************************)
(* C6, amended: the list positions drawn for one passphrase are pairwise   *)
(* distinct, so the words of a passphrase are pairwise distinct whenever   *)
(* the loaded word list holds no word twice.                               *)
(***************************************************************************)
C6_PositionsPairwiseDistinct ==
    (pc = "returned" /\ generator = "PassphraseGenerator" /\ result.kind = "Ok") =>
        \A k \in DOMAIN picks :
            /\ PairwiseDistinct(picks[k])
            /\ PairwiseDistinct(word_list) =>
                PairwiseDistinct(passphrase_words(word_list, picks[k]))

\* A passphrase of two words or more drawn from a list that holds no word twice.
C6_Witness ==
    /\ Succeeded("PassphraseGenerator", "generate")
    /\ PairwiseDistinct(word_list)
    /\ Len(picks) = 1
    /\ Len(picks[1]) >= 2
    /\ result.val = join(passphrase_words(word_list, picks[1]), config.separator)

(***************************************************************************)
(* C7: if word_count exceeds the number of words of the loaded word list,  *)
(* generate and generate_multiple fail with InvalidWordCount and return no *)
(* passphrase.                                                             *)
(***************************************************************************)
\* The call got as far as the word list: amount and word count were accepted.
ReachedWordList ==
    /\ pc = "returned"
    /\ generator = "PassphraseGenerator"
    /\ call.op = "generate_multiple" => call.amount >= 2
    /\ config.words >= 2

C7_TooManyWordsRejected ==
    (/\ ReachedWordList
     /\ get_word_list(config.word_list, fs).kind = "Ok"
     /\ config.words > Len(get_word_list(config.word_list, fs).val)) =>
        Failed("InvalidWordCount")

(***************************************************************************)
(* C8: generate and generate_multiple fail with InvalidWordCount whenever  *)
(* word_count <= 1, and never return a passphrase of fewer than two words. *)
(* (For generate_multiple the amount is taken to be one the call accepts.) *)
(***************************************************************************)
C8_NeverFewerThanTwoWords ==
    (/\ pc = "returned"
     /\ generator = "PassphraseGenerator"
     /\ call.op = "generate_multiple" => call.amount >= 2) =>
        /\ config.words <= 1 => Failed("InvalidWordCount")
        /\ result.kind = "Ok" => \A k \in DOMAIN picks : Len(picks[k]) >= 2

(***************************************************************************)
(* C9: a line with one token yields that token; a line with two tokens     *)
(* yields the second token only if the first parses as an integer; any     *)
(* other line yields nothing; the loaded list is the yielded words in line *)
(* order, unchanged.                                                       *)
(***************************************************************************)
Digits == Elems(NUMBERS)

\* str::parse::<integer>: an optional sign, then one decimal digit or more.
ParsesAsInteger(token) ==
    LET body == IF token # <<>> /\ Head(token) \in {"+", "-"}
                THEN Tail(token) ELSE token
    IN  body # <<>> /\ Elems(body) \subseteq Digits

RankedLine(line) ==
    LET parts == split_whitespace(line)
    IN  IF Len(parts) = 1 THEN <<parts[1]>>
        ELSE IF Len(parts) = 2 /\ ParsesAsInteger(parts[1]) THEN <<parts[2]>>
        ELSE <<>>

RECURSIVE RankedLines(_)
RankedLines(lines) ==
    IF lines = <<>> THEN <<>>
    ELSE RankedLine(Head(lines)) \o RankedLines(Tail(lines))

C9_RankedLineRule ==
    (ReachedWordList /\ load_file(config.word_list, fs).kind = "Ok") =>
        LET words == RankedLines(load_file(config.word_list, fs).val)
        IN  IF words = <<>> THEN Failed("WordListError")
            ELSE result.kind = "Ok" /\ word_list = words

(***************************************************************************)
(* C10: loading a word list fails with WordListError exactly when zero     *)
(* words remain after the lines read were filtered; a word list that was   *)
(* loaded is never empty.                                                  *)
(***************************************************************************)
C10_EmptyListIsWordListError ==
    (pc = "returned" /\ generator = "PassphraseGenerator") =>
        /\ Failed("WordListError") <=>
            /\ ReachedWordList
            /\ load_file(config.word_list, fs).kind = "Ok"
            /\ filter_map_lines(load_file(config.word_list, fs).val) = <<>>
        /\ result.kind = "Ok" =>
            /\ word_list # <<>>
            /\ word_list = filter_map_lines(load_file(config.word_list, fs).val)

\* An external file with lines, none of which yields a word.
C10_Witness ==
    /\ ReachedWordList
    /\ config.word_list.tag = "Custom"
    /\ fs.exists
    /\ Len(fs.lines) >= 2
    /\ fs.lines[1].ok
    /\ Failed("WordListError")

(***************************************************************************)
(* C11: loading an external word list whose path names no file fails with  *)
(* an Io error that reaches the caller of generate and generate_multiple;  *)
(* the call never falls back to the builtin list and never returns a       *)
(* passphrase.                                                             *)
(***************************************************************************)
MissingExternalList ==
    /\ pc = "returned"
    /\ generator = "PassphraseGenerator"
    /\ config.word_list.tag = "Custom"
    /\ ~fs.exists

C11_MissingFileIsIoError ==
    MissingExternalList =>
        /\ result.kind = "Err"
        /\ word_list = <<>>
        /\ picks = <<>>
        /\ ReachedWordList => Failed("Io")

\* generate with an accepted word count on a path that names no file.
C11_Witness ==
    /\ MissingExternalList
    /\ call.op = "generate"
    /\ config.words >= 2
    /\ Failed("Io")

(***************************************************************************)
(* C12: a read failure while the lines of an opened external word list are *)
(* being read makes the load, and so the call, fail with an Io error; the  *)
(* words read before the failure are never used for a passphrase.          *)
(***************************************************************************)
ReadFails ==
    /\ config.word_list.tag = "Custom"
    /\ fs.exists
    /\ \E i \in DOMAIN fs.lines : ~fs.lines[i].ok

C12_ReadFailureIsIoError ==
    (ReachedWordList /\ ReadFails) =>
        /\ Failed("Io")
        /\ word_list = <<>>

(***************************************************************************)
(* C13: for every PasswordConfig that can be constructed, a range with     *)
(* min > max included, PasswordGenerator::generate returns a typed result  *)
(* (InvalidLength when min exceeds max) and never panics.                  *)
(***************************************************************************)
C13_GenerateNeverPanics ==
    Returned("PasswordGenerator", "generate") =>
        /\ result.kind \in {"Ok", "Err"}
        /\ (config.length.tag = "Range"
                /\ config.length.start > config.length.end) =>
            Failed("InvalidLength")

(***************************************************************************)
(* C14: PasswordGenerator::generate fails with InvalidLength whenever the  *)
(* resolved length is less than 1, so a successful generate never returns  *)
(* an empty string; every length value is accepted when the configuration  *)
(* is constructed.                                                         *)
(***************************************************************************)
C14_ZeroLengthIsInvalidLength ==
    /\ \A l \in Lengths : \A c, n, y \in BOOLEAN :
            PasswordConfig(l, c, n, y) \in PasswordConfigs
    /\ Returned("PasswordGenerator", "generate") =>
        /\ (Len(lengths) = 1 /\ lengths[1] < 1) => Failed("InvalidLength")
        /\ result.kind = "Ok" => result.val # <<>>

\* A range starting at 0 that resolved to 0.
C14_Witness ==
    /\ Returned("PasswordGenerator", "generate")
    /\ config.length.tag = "Range"
    /\ config.length.start < config.length.end
    /\ lengths = <<0>>
    /\ Failed("InvalidLength")

(***************************************************************************)
(* C15: ZxcvbnAnalysis::evaluate and passes_threshold both fail with       *)
(* InvalidLength when the input string is empty, and both succeed for      *)
(* every input that is not empty.                                          *)
(***************************************************************************)
C15_EmptyInputIsInvalidLength ==
    /\ report.kind # "None" =>
        IF input = <<>>
        THEN report.kind = "Err" /\ report.err = "InvalidLength"
        ELSE report.kind = "Ok"
    /\ passes.kind # "None" =>
        IF input = <<>>
        THEN passes.kind = "Err" /\ passes.err = "InvalidLength"
        ELSE passes.kind = "Ok"

\* Both calls were made on the empty string and both failed.
C15_Witness ==
    /\ input = <<>>
    /\ report.kind = "Err"
    /\ passes.kind = "Err"

(***************************************************************************)
(* C16: for every input x that is not empty and every oracle returning a   *)
(* score in 0..4, passes_threshold(x) is true if and only if the score     *)
(* that evaluate(x) reports is at least 3.                                 *)
(***************************************************************************)
\* The score read back from a report "Score: <digit>/4, Crack time: ...".
ReportedScore(text) == CHOOSE n \in 0..9 : NUMBERS[n + 1] = text[2]

C16_ThresholdAgreesWithReport ==
    (input # <<>> /\ report.kind = "Ok" /\ passes.kind = "Ok") =>
        /\ report.val[1] = "Score: "
        /\ ReportedScore(report.val) \in 0..4
        /\ passes.val <=> ReportedScore(report.val) >= 3

\* An input the oracle scores exactly 3: the report says 3 and the
\* threshold test passes.
C16_Witness ==
    /\ input # <<>>
    /\ report.kind = "Ok"
    /\ ReportedScore(report.val) = 3
    /\ passes.kind = "Ok"
    /\ passes.val

(***************************************************************************)
(* C17: when a preset is selected, the configuration that is built is      *)
(* determined by the preset alone: it is the configuration of the command  *)
(* line that gives the preset and nothing else, whatever length, maximum   *)
(* length, class toggles, word count, separator or word list the command   *)
(* line sets, and whatever setters were called on the builder before       *)
(* build_from_preset.  (Two runs with the same preset therefore build the  *)
(* same configuration.)                                                    *)
(***************************************************************************)
Exited == pc = "exited"

PresetSelected ==
    /\ Exited
    /\ cli.preset.is_some
    /\ parse_preset(cli.preset.val).kind = "Ok"

\* The configuration gen_password or gen_passphrase builds for a command line.
BuiltConfig(args) ==
    IF args.passphrase THEN passphrase_config(args) ELSE password_config(args)

ItemLines == {i \in DOMAIN stdout : Head(stdout[i]) # "Strength: "}

C18_CountDisabledUnderPreset ==
    PresetSelected =>
        /\ exit_code = 0
        /\ Cardinality(ItemLines) = DEFAULT_COUNT

(***************************************************************************)
(* C19: for a valid configuration and every count c >= 1, the run without  *)
(* evaluation prints exactly c generated strings, one per line; with       *)
(* c = 0 it fails with InvalidGenAmount and prints no generated string.    *)
(***************************************************************************)
\* The configuration was built and its generator accepts it: a length of
\* at least 1, or at least two words and a word list that loads.
ValidConfiguration ==
    /\ BuiltConfig(cli).kind = "Ok"
    /\ ~cli.passphrase => BuiltConfig(cli).val.length.start >= 1
    /\ cli.passphrase =>
        /\ BuiltConfig(cli).val.words >= 2
        /\ \A i \in DOMAIN fs.lines : fs.lines[i].ok
        /\ get_word_list(BuiltConfig(cli).val.word_list, fs).kind = "Ok"

\* Line i of the items printed is the i-th string the generator produced.
IsGeneratedItem(line, i) ==
    IF cli.passphrase
    THEN line = join(passphrase_words(word_list, picks[i]), config.separator)
    ELSE Len(line) = lengths[i] /\ Elems(line) \subseteq Elems(pool)

C19_PrintsExactlyCountStrings ==
    (Exited /\ ~cli.evaluate_strength /\ ValidConfiguration) =>
        IF cli.count = 0
        THEN /\ Failed("InvalidGenAmount")
             /\ exit_code = 1
             /\ stdout = <<>>
        ELSE /\ exit_code = 0
             /\ Len(stdout) = cli.count
             /\ \A i \in 1..cli.count : IsGeneratedItem(stdout[i], i)

\* A run with --count 2 and --passphrase that printed two lines.
C19_Witness ==
    /\ Exited
    /\ ~cli.evaluate_strength
    /\ ValidConfiguration
    /\ cli.passphrase
    /\ cli.count = 2
    /\ Len(stdout) = 2
    /\ stdout[1] # stdout[2]

(***************************************************************************)
(* C20: when evaluation is requested, each generated string's line is      *)
(* immediately followed by exactly one line for that same string, before   *)
(* the next generated string is printed.  As claimed the line has the form *)
(* "Strength: <score>/4, Crack time: <estimate>"; the line printed is      *)
(* "Strength: Score: <score>/4, Crack time: <estimate>".                   *)
(***************************************************************************)
\* The strength line the claim describes for a string.
ClaimedStrengthLine(item) ==
    <<"Strength: ", NUMBERS[zxcvbn(oracle, item).score + 1],
      "/4, Crack time: ">> \o zxcvbn(oracle, item).crack_time

\* The strength line with the report's own "Score: " label.
LabelledStrengthLine(item) ==
    <<"Strength: ", "Score: ", NUMBERS[zxcvbn(oracle, item).score + 1],
      "/4, Crack time: ">> \o zxcvbn(oracle, item).crack_time

EvaluatedRun == Exited /\ cli.evaluate_strength /\ exit_code = 0

C20_StrengthLineAsClaimed ==
    EvaluatedRun =>
        /\ Len(stdout) = 2 * cli.count
        /\ \A i \in 1..cli.count :
            /\ IsGeneratedItem(stdout[2 * i - 1], i)
            /\ stdout[2 * i] = ClaimedStrengthLine(stdout[2 * i - 1])

C20_StrengthLineFollowsItem ==
    EvaluatedRun =>
        /\ Len(stdout) = 2 * cli.count
        /\ stderr = <<>>
        /\ \A i \in 1..cli.count :
            /\ IsGeneratedItem(stdout[2 * i - 1], i)
            /\ stdout[2 * i] = LabelledStrengthLine(stdout[2 * i - 1])

\* Two items whose strength lines differ, each after its own item.
C20_Witness ==
    /\ EvaluatedRun
    /\ cli.count = 2
    /\ Len(stdout) = 4
    /\ stdout[2] # stdout[4]
    /\ stdout[2] = LabelledStrengthLine(stdout[1])
    /\ stdout[4] = LabelledStrengthLine(stdout[3])

(***************************************************************************)
(* C21: the process exits with code zero exactly when preset parsing,      *)
(* length parsing and generation all succeed, and exits non-zero after     *)
(* writing an "Error: ..." line whenever a validation or I/O failure       *)
(* occurs: invalid preset, maximum length below minimum length, invalid    *)
(* length, invalid word count, invalid count, word-list failure.           *)
(***************************************************************************)
\* The configuration the run asks for, when its preset and length parse.
Requested == BuiltConfig(cli).val

\* The external word list of the run cannot be used: no file at the path,
\* a line whose read fails, or no word on any line.
WordListFailure ==
    /\ Requested.word_list.tag = "Custom"
    /\ \/ ~fs.exists
       \/ \E i \in DOMAIN fs.lines : ~fs.lines[i].ok
       \/ filter_map_lines(map_while_ok(fs.lines)) = <<>>

\* The word count is at most 1 or exceeds the words of the external list.
\* (The builtin list holds thousands of words; no count here exceeds it.)
WordCountFailure ==
    \/ Requested.words <= 1
    \/ /\ Requested.word_list.tag = "Custom"
       /\ ~WordListFailure
       /\ Requested.words > Len(filter_map_lines(map_while_ok(fs.lines)))

\* One of the failures the claim lists occurs in the run.
FailureOccurs ==
    \/ BuiltConfig(cli).kind = "Err"
    \/ cli.count = 0
    \/ ~cli.passphrase /\ \E i \in DOMAIN lengths : lengths[i] < 1
    \/ cli.passphrase /\ (WordCountFailure \/ WordListFailure)

C21_ExitCodeReportsFailure ==
    Exited =>
        /\ exit_code = 0 <=> ~FailureOccurs
        /\ exit_code # 0 =>
            /\ stderr # <<>>
            /\ Head(stderr[Len(stderr)]) = "Error: "

(***************************************************************************)
(* C22: when the user does not set a word count, the passphrase word count *)
(* that is used lies between 4 and 6, with no preset selected and under    *)
(* each of the presets Weak, Average and Strong.  What holds is: the count *)
(* is 6 with no preset, 4 under Weak, 8 under Average, 16 under Strong.    *)
(***************************************************************************)
\* A passphrase run without --words whose configuration was built.
WordCountNotSet ==
    /\ Exited
    /\ cli.passphrase
    /\ cli.words = DefaultCli.words
    /\ BuiltConfig(cli).kind = "Ok"

SingleGenerateContract(t) ==
    LET r == threads[t].result
    IN  /\ r.kind = "Err" => r.err = "InvalidLength" /\ threads[t].length < 1
        /\ r.kind = "Ok" =>
            /\ Len(r.val) = threads[t].length
            /\ Len(r.val) >= 1
            /\ config.length.start <= Len(r.val)
            /\ Len(r.val) <= config.length.end
            /\ Elems(r.val) \subseteq AllowedCharacters(config)

C23_ConcurrentCallsKeepContract ==
    /\ [](\A t \in DOMAIN threads :
            threads[t].pc = "returned" => SingleGenerateContract(t))
    /\ [][config' = config]_vars

\* Two calls on one range that both returned, with passwords of different
\* lengths.
C23_Witness ==
    /\ threads # <<>>
    /\ \A t \in Threads : threads[t].pc = "returned"
    /\ threads[1].result.kind = "Ok"
    /\ threads[2].result.kind = "Ok"
    /\ Len(threads[1].result.val) < Len(threads[2].result.val)

(***************************************************************************)
(* C24: the command-line length parser maps (min, max) as follows: no max  *)
(* gives Single(min); max = min gives Single(min); max > min gives         *)
(* Range(min..=max); max < min fails with InvalidLength.  Hence no Range   *)
(* with min > max is ever passed from the command line to the generator.   *)
(***************************************************************************)
\* A password run whose length comes from --length and --max-length.
LengthParsed == Exited /\ ~cli.passphrase /\ ~cli.preset.is_some

C24_ParseLengthMapping ==
    /\ LengthParsed =>
        LET min == cli.min_length
            max == cli.max_length
        IN  /\ ~max.is_some => config.length = Single(min)
            /\ (max.is_some /\ max.val = min) => config.length = Single(min)
            /\ (max.is_some /\ max.val > min) =>
                config.length = Range(min, max.val)
            /\ (max.is_some /\ max.val < min) =>
                /\ Failed("InvalidLength")
                /\ config = NoConfig
                /\ lengths = <<>>
                /\ stdout = <<>>
    /\ (Exited /\ ~cli.passphrase) =>
        /\ result.kind # "Panic"
        /\ config # NoConfig => config.length.start <= config.length.end

\* --length 2 --max-length 1 is refused before any generator is called.
C24_Witness ==
    /\ LengthParsed
    /\ cli.max_length.is_some
    /\ cli.min_length = 2
    /\ cli.max_length.val = 1
    /\ Failed("InvalidLength")
    /\ exit_code = 1

(***************************************************************************)
(* C25: PassphraseGenerator::generate_multiple(config, amount) with        *)
(* amount >= 2 loads the word list once and is observably equivalent to    *)
(* amount successive generate(config) calls on an unchanged word list: it  *)
(* fails with the same error whenever generate(config) would fail, and     *)
(* otherwise every one of its outputs is an output generate(config) could  *)
(* return.                                                                 *)
(***************************************************************************)
\* What single generate(config) calls on the same file can return.
GenerateResults == {g.result : g \in PassphraseGenerate(config, fs)}

MultipleOfTwoOrMore ==
    /\ Returned("PassphraseGenerator", "generate_multiple")
    /\ call.amount >= 2

C25_MultipleEquivalentToRepeatedGenerate ==
    MultipleOfTwoOrMore =>
        IF \E g \in GenerateResults : g.kind # "Ok"
        THEN result \in GenerateResults
        ELSE /\ result.kind = "Ok"
             /\ Len(result.val) = call.amount
             /\ Len(picks) = call.amount
             /\ \A i \in DOMAIN result.val : Ok(result.val[i]) \in GenerateResults
             /\ \A g \in PassphraseGenerate(config, fs) : g.word_list = word_list

\* Two different passphrases from one load of an external list.
C25_Witness ==
    /\ MultipleOfTwoOrMore
    /\ config.word_list.tag = "Custom"
    /\ result.kind = "Ok"
    /\ Len(result.val) = 2
    /\ result.val[1] # result.val[2]
    /\ Len(word_list) >= 2

(***************************************************************************)
(* C26: in PassphraseGenerator::generate the word-count check precedes the *)
(* word-list load: when the word count is <= 1 the result is               *)
(* InvalidWordCount regardless of the word source, even if the external    *)
(* path does not exist or the list would parse to zero words, and the word *)
(* source is not read at all.  generate_multiple with a valid amount does  *)
(* the same.                                                               *)
(***************************************************************************)
WordCountTooSmall ==
    /\ pc = "returned"
    /\ generator = "PassphraseGenerator"
    /\ word_count_invalid(config.words)
    /\ (call.op = "generate_multiple" => ~amount_invalid(call.amount))

C26_WordCountCheckedBeforeLoad ==
    WordCountTooSmall =>
        /\ Failed("InvalidWordCount")
        /\ word_list = <<>>
        /\ picks = <<>>

\* generate with one word and an external list that cannot be loaded.
C26_Witness ==
    /\ WordCountTooSmall
    /\ call.op = "generate"
    /\ config.word_list.tag = "Custom"
    /\ get_word_list(config.word_list, fs).kind # "Ok"
    /\ Failed("InvalidWordCount")

(***************************************************************************)
(* C27: command-line output is all-or-nothing with respect to generation   *)
(* errors: all requested items are generated before the first one is       *)
(* printed, so if generation fails for any item, no generated string has   *)
(* been written to standard output when the error is reported.             *)
(***************************************************************************)
GenerationFailed == Exited /\ result.kind # "Ok"

C27_NoOutputOnGenerationFailure ==
    /\ GenerationFailed =>
        /\ stdout = <<>>
        /\ exit_code # 0
        /\ stderr # <<>>
    /\ (Exited /\ result.kind = "Ok") =>
        \E k \in {1, 2} : Len(stdout) + Len(stderr) = k * cli.count

\* Two passwords asked for; the first length resolved to 1 and the second
\* to 0, so one password had been generated when the call failed.
C27_Witness ==
    /\ GenerationFailed
    /\ cli.count = 2
    /\ lengths = <<1, 0>>
    /\ Failed("InvalidLength")
    /\ stdout = <<>>
    /\ exit_code = 1

(***************************************************************************)
(* C28: PasswordGenerator::generate_multiple returns either all `amount`   *)
(* passwords or an error, never a partial list: each inner call resolves   *)
(* its length afresh, and if any one inner generate fails (for example a   *)
(* Range containing 0 that resolves to 0), the whole call returns that     *)
(* error.                                                                  *)
(***************************************************************************)
PasswordMultipleReturned ==
    /\ Returned("PasswordGenerator", "generate_multiple")
    /\ result.kind # "Panic"

C28_AllPasswordsOrError ==
    PasswordMultipleReturned =>
        /\ result.kind \in {"Ok", "Err"}
        /\ \A i \in DOMAIN lengths : lengths[i] \in get_length(config.length)
        /\ result.kind = "Ok" =>
            /\ Len(result.val) = call.amount
            /\ Len(lengths) = call.amount
            /\ \A i \in DOMAIN result.val : Len(result.val[i]) = lengths[i]
        /\ (\E i \in DOMAIN lengths : length_invalid(lengths[i])) =>
            Failed("InvalidLength")

\* The first inner call resolved 1 and the second 0, out of Range(0..=1) or
\* wider: the call returns InvalidLength and no list.
C28_Witness ==
    /\ PasswordMultipleReturned
    /\ call.amount = 2
    /\ config.length.tag = "Range"
    /\ lengths = <<1, 0>>
    /\ Failed("InvalidLength")

====
